---- MODULE Spec2Model ----
(***************************************************************************)
(* Cart store of the patient portal (lib/cart.ts, kept in                  *)
(* src/unnamed/part_004): a list of cart lines serialised under one        *)
(* localStorage key, with a "cartUpdated" window event raised by the       *)
(* mutators.                                                               *)
(*                                                                         *)
(* Conventions: sequences are 1-based, so findIndex returns 0 where the    *)
(* JavaScript returns -1, and "existingIndex >= 0" reads "> 0" here.       *)
(***************************************************************************)
EXTENDS Integers, Sequences, FiniteSets, TLC

\* ------------------------------------------------------------------ bounds
\* largest quantity a caller passes to addToCart
MaxQty == 1
\* largest availableQuantity (seller stock snapshot) a caller passes
MaxAvail == 1

\* ------------------------------------------------------------ input space
\* The inventory items the store offers, as (productId, pharmacyId).
Catalog == { <<"P1", "S1">>, <<"P2", "S1">>, <<"P1", "S2">> }

sellingPrice(k) ==
    CASE k = <<"P1", "S1">> -> 50
      [] k = <<"P2", "S1">> -> 20
      [] OTHER              -> 45

listPrice(k) == sellingPrice(k) + 10

\* The stock figures (product.quantity, brand.availableQuantity) a page can
\* have fetched for an inventory item when it builds the CartItem: the first
\* item's stock moves over the whole range, the others are fully stocked.
Stock(k) == IF k = <<"P1", "S1">> THEN 0..MaxAvail ELSE {MaxAvail}

\* The CartItem values the pages hand to addToCart.
CartItem ==
    { [ productId         |-> ka[1][1],
        pharmacyId        |-> ka[1][2],
        quantity          |-> q,
        price             |-> sellingPrice(ka[1]),
        mrp               |-> listPrice(ka[1]),
        availableQuantity |-> ka[2] ] :
      ka \in { x \in Catalog \X (0..MaxAvail) : x[2] \in Stock(x[1]) },
      q \in 0..MaxQty }

\* The quantities the pages hand to updateQuantity (displayed quantity +/- 1).
UpdateQuantity == (0 - 1)..(MaxAvail + 1)

NoArg == "-"

\* ------------------------------------------------------------------ state
VARIABLES
    hasWindow,   \* typeof window !== "undefined" in the realm running the module
    quotaFull,   \* the browser refuses the next localStorage.setItem
    storage,     \* the text stored under CART_STORAGE_KEY
    last         \* the last cartUtils call: arguments, outcome, what subscribers read

cartVars == <<hasWindow, quotaFull, storage, last>>

\* ----------------------------------------------- realtime session bridge
\* lib/socket.ts (the module of src/lib/socket.ts lines 95-281): one
\* socket.io-client Socket held in a module variable.

\* most Sockets io() creates in one run
MaxSockets == 2
\* connectionErrorCount >= 3 in the connect_error handler
ErrorCap == 3

Tokens == {"t1", "t2"}
NoToken == ""
\* the callbacks pages pass to onSocketEvent; "*" is offSocketEvent without one
Handlers == {"h1", "h2"}
AllHandlers == "*"

VARIABLES
    apiBase,              \* process.env.NEXT_PUBLIC_API_BASE is set
    sockets,              \* every Socket io() returned, in order of creation
    socket,               \* the module variable: 0 for null, else a position in sockets
    isInitializing,
    connectionTimeout,    \* "null", or the timer: "pending" or "fired"
    connectionErrorCount,
    subscriptions,        \* <<handler, session>>: passed to onSocketEvent while that
                          \* session was held (0: none), and not taken back since
    step                  \* the last bridge call or transport event and what it did

socketVars == <<apiBase, sockets, socket, isInitializing, connectionTimeout,
                connectionErrorCount, subscriptions, step>>

NoStep == [op |-> "none", arg |-> NoArg, sock |-> 0, result |-> 0,
           trace |-> << >>, invoked |-> {}]

\* The bridge before anything was called.
SocketIdle ==
    /\ sockets = << >>
    /\ socket = 0
    /\ isInitializing = FALSE
    /\ connectionTimeout = "null"
    /\ connectionErrorCount = 0
    /\ subscriptions = {}
    /\ step = NoStep

\* -------------------------------------------------------------- the pages
\* State of the components that use the cart store and the bridge.

\* most delayed initializeSocket calls waiting at one time
MaxTimers == 2

VARIABLES
    storedToken,          \* localStorage "token": NoToken when there is none
    effectToken,          \* the token the last run of the SocketProvider effect read
    timers                \* tokens of the setTimeout(initializeSocket, 100) not yet run

providerVars == <<storedToken, effectToken, timers>>

VARIABLES
    checkoutData,         \* sessionStorage "checkoutData": the snapshot, or NoCheckout
    request               \* the last handlePlaceOrder: how far it got and what it sent

checkoutVars == <<checkoutData, request>>

\* largest availableQuantity of a line in the cart two tabs share
MaxStock == 2

Tabs == {"A", "B"}

VARIABLES
    shown,                \* per tab: the cart state of CartPage, as last loaded
    clicked               \* the last click on a quantity button: the tab, the
                          \* quantity it showed and the quantity storage held

tabVars == <<shown, clicked>>

NoClick == [tab |-> NoArg, shown |-> 0, stored |-> 0]

\* most changes the server makes to the tracked order
MaxVersion == 3
\* most refetches the page starts
MaxFetches == 3

VARIABLES
    serverOrder,          \* the order on the server: the number of its latest change
    order,                \* the order state of the tracking page (0: null)
    issued,               \* how many fetchOrder calls the page has made
    fetches,              \* the apiGet calls in flight: [id, data], data 0 until
                          \* the server has answered with the order it then held
    resolved              \* the last apiGet that resolved, and the order shown before

refetchVars == <<serverOrder, order, issued, fetches, resolved>>

NoFetch == [id |-> 0, data |-> 0, before |-> 0]

appVars == <<providerVars, checkoutVars, tabVars, refetchVars>>

\* const deliveryCharge = 30
DeliveryCharge == 30

DeliveryTypes == {"DELIVERY", "PICKUP"}

NoCheckout ==
    [pharmacyId |-> NoArg, itemsDetails |-> << >>, totalAmount |-> 0,
     deliveryCharge |-> 0]

NoPayload ==
    [pharmacyId |-> NoArg, deliveryType |-> NoArg, totalAmount |-> 0,
     deliveryCharge |-> 0, prescriptionImageUrl |-> "null"]

NoRequest == [state |-> "none", data |-> NoCheckout, payload |-> NoPayload]

\* No page has done anything.
AppIdle ==
    /\ storedToken = NoToken
    /\ effectToken = NoToken
    /\ timers = << >>
    /\ checkoutData = NoCheckout
    /\ request = NoRequest
    /\ shown = [tab \in Tabs |-> << >>]
    /\ clicked = NoClick
    /\ serverOrder = 0
    /\ order = 0
    /\ issued = 0
    /\ fetches = {}
    /\ resolved = NoFetch

\* Text under the key, by what JSON.parse makes of it.
absent        == [kind |-> "absent", items |-> <<>>]
unparseable   == [kind |-> "garbage", items |-> <<>>]
jsonNull      == [kind |-> "null", items |-> <<>>]
jsonObject    == [kind |-> "object", items |-> <<>>]

JSONstringify(items) == [kind |-> "array", items |-> items]

\* JSON.parse: a value, or a SyntaxError.
JSONparse(text) ==
    CASE text.kind = "array"  -> [error |-> "none", type |-> "array", items |-> text.items]
      [] text.kind = "null"   -> [error |-> "none", type |-> "null", items |-> <<>>]
      [] text.kind = "object" -> [error |-> "none", type |-> "object", items |-> <<>>]
      [] OTHER                -> [error |-> "SyntaxError", type |-> "none", items |-> <<>>]

emptyList == [type |-> "array", items |-> <<>>]

\* getCart(): the value handed back to the caller for stored text st.
getCart(st) ==
    IF ~hasWindow THEN emptyList
    ELSE IF st.kind = "absent" THEN emptyList            \* cartJson is null: falsy
    ELSE LET parsed == JSONparse(st)
         IN  IF parsed.error # "none" THEN emptyList     \* catch
             ELSE [type |-> parsed.type, items |-> parsed.items]

Min(a, b) == IF a < b THEN a ELSE b

SameKey(line, productId, pharmacyId) ==
    line.productId = productId /\ line.pharmacyId = pharmacyId

\* findIndex with the second comparison against the wrong argument.
findIndex_typo(items, productId, pharmacyId) ==
    LET hits == { i \in 1..Len(items) :
                    items[i].productId = productId /\ items[i].pharmacyId = productId }
    IN  IF hits = {} THEN 0
        ELSE CHOOSE i \in hits : \A j \in hits : i <= j

\* Array.prototype.findIndex with the key predicate; 0 when nothing matches.
findIndex(items, productId, pharmacyId) ==
    LET hits == { i \in 1..Len(items) : SameKey(items[i], productId, pharmacyId) }
    IN  IF hits = {} THEN 0
        ELSE CHOOSE i \in hits : \A j \in hits : i <= j

\* addQuantity clamping to the stock of the incoming item, not the stored one.
addQuantity_itemStock(line, item) ==
    LET sum == line.quantity + item.quantity
    IN  [line EXCEPT !.quantity =
            IF sum > item.availableQuantity THEN item.availableQuantity ELSE sum]

\* addToCart, existing line: cart[i].quantity += item.quantity, then the clamp.
addQuantity(line, item) ==
    LET sum == line.quantity + item.quantity
    IN  [line EXCEPT !.quantity =
            IF sum > line.availableQuantity THEN line.availableQuantity ELSE sum]

\* setQuantity without the Math.min.
setQuantity_unclamped(line, quantity) == [line EXCEPT !.quantity = quantity]

\* updateQuantity, quantity > 0: Math.min(quantity, availableQuantity).
setQuantity(line, quantity) ==
    [line EXCEPT !.quantity = Min(quantity, line.availableQuantity)]

\* splice that fills the hole with the last line
splice_moveLast(items, index) ==
    [i \in 1..(Len(items) - 1) |-> IF i = index THEN items[Len(items)] ELSE items[i]]

\* cart.splice(index, 1)
splice(items, index) ==
    [i \in 1..(Len(items) - 1) |-> IF i < index THEN items[i] ELSE items[i + 1]]

\* filterOut with the predicate on productId alone.
RECURSIVE filterOut_byProduct(_, _, _)
filterOut_byProduct(items, productId, pharmacyId) ==
    IF items = <<>> THEN <<>>
    ELSE LET rest == filterOut_byProduct(Tail(items), productId, pharmacyId)
         IN  IF Head(items).productId = productId
             THEN rest
             ELSE <<Head(items)>> \o rest

\* cart.filter(item => !(same key))
RECURSIVE filterOut(_, _, _)
filterOut(items, productId, pharmacyId) ==
    IF items = <<>> THEN <<>>
    ELSE LET rest == filterOut(Tail(items), productId, pharmacyId)
         IN  IF SameKey(Head(items), productId, pharmacyId)
             THEN rest
             ELSE <<Head(items)>> \o rest

\* localStorage.setItem(CART_STORAGE_KEY, JSON.stringify(items))
setItem(items) ==
    IF ~hasWindow THEN [error |-> "ReferenceError", storage |-> storage]
    ELSE IF quotaFull THEN [error |-> "QuotaExceededError", storage |-> storage]
    ELSE [error |-> "none", storage |-> JSONstringify(items)]

\* localStorage.removeItem(CART_STORAGE_KEY)
removeItem ==
    IF ~hasWindow THEN [error |-> "ReferenceError", storage |-> storage]
    ELSE [error |-> "none", storage |-> absent]

\* CartPage's cartUpdated handler: loadCart reads getCart() at dispatch time.
loadCart(st) == getCart(st).items

\* notifyCartUpdate(): the carts the subscribers read, one per dispatched event.
notifyCartUpdate(st) ==
    IF hasWindow THEN << loadCart(st) >> ELSE << >>

\* persist with the two statements swapped: the handlers run before setItem.
persist_notifyFirst(items) ==
    LET written == setItem(items)
    IN  [ error   |-> written.error,
          storage |-> written.storage,
          heard   |-> IF written.error = "none"
                      THEN notifyCartUpdate(storage)
                      ELSE << >> ]

\* The tail of addToCart, updateQuantity and removeFromCart: setItem, and only
\* when it returned, notifyCartUpdate (dispatchEvent runs the handlers before
\* it returns, so they read the text just written).
persist(items) ==
    LET written == setItem(items)
    IN  [ error   |-> written.error,
          storage |-> written.storage,
          heard   |-> IF written.error = "none"
                      THEN notifyCartUpdate(written.storage)
                      ELSE << >> ]

\* The record of a call.  index is the position, before the call, of the line
\* with the call's key (0: none; for addToCart and updateQuantity the value
\* findIndex returned); onFresh says that the call before this one was the
\* addToCart that appended that line; heard is what notifyCartUpdate delivered.
Call(op, productId, pharmacyId, quantity, index, error, heard) ==
    [ op |-> op, productId |-> productId, pharmacyId |-> pharmacyId,
      quantity |-> quantity, index |-> index, error |-> error, heard |-> heard,
      onFresh |-> /\ last.op = "addToCart"
                  /\ last.error = "none"
                  /\ last.index = 0
                  /\ last.productId = productId
                  /\ last.pharmacyId = pharmacyId ]

\* The call ends with an exception before anything is written or signalled.
Raise(op, productId, pharmacyId, quantity, index, error) ==
    /\ last' = Call(op, productId, pharmacyId, quantity, index, error, << >>)
    /\ UNCHANGED storage

\* ---------------------------------------------------------------- queries
\* The read-only operations, as the value or the exception the caller gets.

\* cart.reduce((sum, item) => sum + item.quantity, 0)
RECURSIVE reduceQuantity(_, _)
reduceQuantity(items, sum) ==
    IF items = <<>> THEN sum
    ELSE reduceQuantity(Tail(items), sum + Head(items).quantity)

\* cart.reduce((sum, item) => sum + item.price * item.quantity, 0)
RECURSIVE reducePrice(_, _)
reducePrice(items, sum) ==
    IF items = <<>> THEN sum
    ELSE reducePrice(Tail(items), sum + Head(items).price * Head(items).quantity)

getCartCount(st) ==
    LET cart == getCart(st)
    IN  IF cart.type # "array" THEN [error |-> "TypeError", value |-> 0]
        ELSE [error |-> "none", value |-> reduceQuantity(cart.items, 0)]

\* getCartTotal with getCartCount's reducer.
getCartTotal_quantityOnly(st) ==
    LET cart == getCart(st)
    IN  IF cart.type # "array" THEN [error |-> "TypeError", value |-> 0]
        ELSE [error |-> "none", value |-> reduceQuantity(cart.items, 0)]


getCartTotal(st) ==
    LET cart == getCart(st)
    IN  IF cart.type # "array" THEN [error |-> "TypeError", value |-> 0]
        ELSE [error |-> "none", value |-> reducePrice(cart.items, 0)]

\* cart.some(item => same key)
isInCart(st, productId, pharmacyId) ==
    LET cart == getCart(st)
    IN  IF cart.type # "array" THEN [error |-> "TypeError", value |-> FALSE]
        ELSE [error |-> "none",
              value |-> \E i \in 1..Len(cart.items) :
                           SameKey(cart.items[i], productId, pharmacyId)]

\* groupPush without the "if": the group is re-created on every line.
groupPush_recreate(grouped, item) ==
    LET started == [s \in DOMAIN grouped \cup {item.pharmacyId} |->
                       IF s = item.pharmacyId THEN << >> ELSE grouped[s]]
    IN  [started EXCEPT ![item.pharmacyId] = Append(@, item)]

\* One turn of the forEach body: create the group if missing, then push.
groupPush(grouped, item) ==
    LET started == IF item.pharmacyId \in DOMAIN grouped
                   THEN grouped
                   ELSE grouped @@ (item.pharmacyId :> << >>)
    IN  [started EXCEPT ![item.pharmacyId] = Append(@, item)]

RECURSIVE forEachGroup(_, _)
forEachGroup(items, grouped) ==
    IF items = <<>> THEN grouped
    ELSE forEachGroup(Tail(items), groupPush(grouped, Head(items)))

\* The empty object literal: a record with no keys.
emptyObject == [x \in {} |-> << >>]

getCartByPharmacy(st) ==
    LET cart == getCart(st)
    IN  IF cart.type # "array" THEN [error |-> "TypeError", value |-> emptyObject]
        ELSE [error |-> "none", value |-> forEachGroup(cart.items, emptyObject)]

\* ---------------------------------------------------------------- actions
addToCart(item) ==
    /\ LET cart == getCart(storage)
       IN  IF cart.type # "array"
           THEN Raise("addToCart", item.productId, item.pharmacyId, item.quantity,
                      0, "TypeError")                     \* cart.findIndex
           ELSE
             LET existingIndex == findIndex(cart.items, item.productId, item.pharmacyId)
                 updated == IF existingIndex > 0
                            THEN [cart.items EXCEPT
                                    ![existingIndex] = addQuantity(@, item)]
                            ELSE Append(cart.items, item)
                 done == persist(updated)
             IN  /\ storage' = done.storage
                 /\ last' = Call("addToCart", item.productId, item.pharmacyId,
                                 item.quantity, existingIndex, done.error, done.heard)
    /\ UNCHANGED <<hasWindow, quotaFull, socketVars, appVars>>

\* updateQuantity with the write and the signal moved out of the "if".
updateQuantity_alwaysPersist(productId, pharmacyId, quantity) ==
    /\ LET cart == getCart(storage)
       IN  IF cart.type # "array"
           THEN Raise("updateQuantity", productId, pharmacyId, quantity, 0,
                      "TypeError")
           ELSE
             LET index == findIndex(cart.items, productId, pharmacyId)
                 updated == IF index = 0 THEN cart.items
                            ELSE IF quantity <= 0
                            THEN splice(cart.items, index)
                            ELSE [cart.items EXCEPT
                                    ![index] = setQuantity(@, quantity)]
                 done == persist(updated)
             IN  /\ storage' = done.storage
                 /\ last' = Call("updateQuantity", productId, pharmacyId,
                                 quantity, index, done.error, done.heard)
    /\ UNCHANGED <<hasWindow, quotaFull, socketVars, appVars>>

updateQuantity(productId, pharmacyId, quantity) ==
    /\ LET cart == getCart(storage)
       IN  IF cart.type # "array"
           THEN Raise("updateQuantity", productId, pharmacyId, quantity, 0,
                      "TypeError")                        \* cart.findIndex
           ELSE
             LET index == findIndex(cart.items, productId, pharmacyId)
             IN  IF index > 0
                 THEN LET updated == IF quantity <= 0
                                     THEN splice(cart.items, index)
                                     ELSE [cart.items EXCEPT
                                             ![index] = setQuantity(@, quantity)]
                          done == persist(updated)
                      IN  /\ storage' = done.storage
                          /\ last' = Call("updateQuantity", productId, pharmacyId,
                                          quantity, index, done.error, done.heard)
                 ELSE \* key absent: nothing written, nothing signalled
                      /\ last' = Call("updateQuantity", productId, pharmacyId,
                                      quantity, 0, "none", << >>)
                      /\ UNCHANGED storage
    /\ UNCHANGED <<hasWindow, quotaFull, socketVars, appVars>>

removeFromCart(productId, pharmacyId) ==
    /\ LET cart == getCart(storage)
       IN  IF cart.type # "array"
           THEN Raise("removeFromCart", productId, pharmacyId, 0, 0,
                      "TypeError")                        \* cart.filter
           ELSE
             LET filtered == filterOut(cart.items, productId, pharmacyId)
                 done == persist(filtered)
             IN  /\ storage' = done.storage
                 /\ last' = Call("removeFromCart", productId, pharmacyId, 0,
                                 findIndex(cart.items, productId, pharmacyId),
                                 done.error, done.heard)
    /\ UNCHANGED <<hasWindow, quotaFull, socketVars, appVars>>

clearCart ==
    /\ LET removed == removeItem
       IN  IF removed.error # "none"
           THEN Raise("clearCart", NoArg, NoArg, 0, 0, removed.error)
           ELSE /\ storage' = removed.storage
                /\ last' = Call("clearCart", NoArg, NoArg, 0, 0, "none",
                                notifyCartUpdate(removed.storage))
    /\ UNCHANGED <<hasWindow, quotaFull, socketVars, appVars>>

\* The origin's storage fills up, or space is freed, between two calls
\* (localStorage is shared by every page of the origin).
QuotaChange ==
    /\ hasWindow
    /\ quotaFull' = ~quotaFull
    /\ UNCHANGED <<hasWindow, storage, last, socketVars, appVars>>

CartInit ==
    /\ hasWindow \in BOOLEAN
    /\ quotaFull = FALSE
    /\ storage \in IF hasWindow
                   THEN {absent, unparseable, jsonNull, jsonObject}
                   ELSE {absent}
    /\ last = [ op |-> "none", productId |-> NoArg, pharmacyId |-> NoArg,
                quantity |-> 0, index |-> 0, error |-> "none", heard |-> << >>,
                onFresh |-> FALSE ]
    /\ apiBase = TRUE
    /\ SocketIdle
    /\ AppIdle

CartNext ==
    \/ \E item \in CartItem : addToCart(item)
    \/ \E k \in Catalog, quantity \in UpdateQuantity : updateQuantity(k[1], k[2], quantity)
    \/ \E k \in Catalog : removeFromCart(k[1], k[2])
    \/ clearCart
    \/ QuotaChange

CartSpec == CartInit /\ [][CartNext]_cartVars

\* ------------------------------------------------- socket.io-client Socket
\* A Socket as the bridge sees it: connected is status = "connected"; a Socket
\* whose manager is still trying is "connecting"; after disconnect() it is
\* "closed" for good.  wired: the bridge's own listeners are attached.
\* handlers: callbacks attached by onSocketEvent.  errors: connect_error
\* events in a row since io() or the last connect.
newSocket(token) ==
    [token |-> token, status |-> "connecting", wired |-> TRUE, handlers |-> {},
     errors |-> 0]

\* The module variables of lib/socket.ts in one record, with the library calls
\* made so far in the running call or event.
Bridge ==
    [sockets |-> sockets, socket |-> socket, isInitializing |-> isInitializing,
     connectionTimeout |-> connectionTimeout,
     connectionErrorCount |-> connectionErrorCount, trace |-> << >>]

connected(B) == B.socket # 0 /\ B.sockets[B.socket].status = "connected"

\* if (connectionTimeout) { clearTimeout(connectionTimeout); connectionTimeout = null }
clearConnectionTimeout(B) == [B EXCEPT !.connectionTimeout = "null"]

\* socket.on("disconnect", (reason) => ...)
onDisconnect(B, reason) ==
    LET B1 == clearConnectionTimeout([B EXCEPT !.isInitializing = FALSE])
    IN IF reason \in {"io server disconnect", "io client disconnect"}
       THEN [B1 EXCEPT !.connectionErrorCount = 0]
       ELSE B1

\* socket.removeAllListeners() on Socket k
removeAllListeners(B, k) ==
    [B EXCEPT !.sockets[k].wired = FALSE, !.sockets[k].handlers = {},
              !.trace = Append(@, "removeAllListeners")]

\* socket.disconnect() that leaves the transport as it is
disconnect_leaveOpen(B, k) == [B EXCEPT !.trace = Append(@, "disconnect")]

\* socket.disconnect() on Socket k: the transport is closed and reconnection
\* stops; a Socket that was connected emits "disconnect" to its listeners.
disconnect(B, k) ==
    LET B1 == [B EXCEPT !.sockets[k].status = "closed",
                        !.trace = Append(@, "disconnect")]
    IN IF B.sockets[k].status = "connected" /\ B.sockets[k].wired
       THEN onDisconnect(B1, "io client disconnect")
       ELSE B1

\* the try block of disconnectSocket and of initializeSocket, in the other order
release_closeFirst(B, k) == removeAllListeners(disconnect(B, k), k)

\* try { socket.removeAllListeners(); socket.disconnect(); } ... socket = null
release(B, k) == disconnect(removeAllListeners(B, k), k)

disconnectSocketOp(B) ==
    IF ~hasWindow THEN B
    ELSE LET B1 == clearConnectionTimeout(
                       [B EXCEPT !.isInitializing = FALSE,
                                 !.connectionErrorCount = 0])
         IN IF B1.socket # 0
            THEN [release(B1, B1.socket) EXCEPT !.socket = 0]
            ELSE B1

\* if (!token)
noToken_never(token) == FALSE

noToken(token) == token = NoToken

\* currentToken === token
sameToken_never(B, token) == FALSE

sameToken(B, token) == B.sockets[B.socket].token = token

\* socket = io(API_BASE, {auth: {token}, ...}); connectionTimeout = setTimeout(...);
\* socket.on("connect" | "disconnect" | "connect_error" | "error", ...)
open(B, token) ==
    LET B1 == clearConnectionTimeout([B EXCEPT !.isInitializing = TRUE])
    IN [B1 EXCEPT !.sockets = Append(@, newSocket(token)),
                  !.socket = Len(B1.sockets) + 1,
                  !.connectionTimeout = "pending",
                  !.trace = Append(@, "io")]

\* What a call returns: the module variables after it and the Socket handed back.
Return(B, result) == [bridge |-> B, result |-> result]

initializeSocketOp(B, token) ==
    IF ~hasWindow THEN Return(B, 0)
    ELSE IF noToken(token) THEN Return(B, 0)
    ELSE IF connected(B) /\ sameToken(B, token) THEN Return(B, B.socket)
    ELSE LET B1 == IF connected(B) THEN disconnectSocketOp(B) ELSE B
         IN IF B1.isInitializing /\ B1.socket # 0 /\ ~connected(B1)
            THEN Return(B1, B1.socket)
            ELSE LET B2 == IF B1.socket # 0 /\ ~connected(B1)
                           THEN [release(B1, B1.socket) EXCEPT !.socket = 0]
                           ELSE B1
                 IN IF ~apiBase
                    THEN Return([B2 EXCEPT !.isInitializing = FALSE], 0)
                    ELSE LET B3 == open(B2, token)
                         IN Return(B3, B3.socket)

\* The module variables take the values of B; the step is recorded.
Assign(B, op, arg, sock, result, invoked) ==
    /\ sockets' = B.sockets
    /\ socket' = B.socket
    /\ isInitializing' = B.isInitializing
    /\ connectionTimeout' = B.connectionTimeout
    /\ connectionErrorCount' = B.connectionErrorCount
    /\ step' = [op |-> op, arg |-> arg, sock |-> sock, result |-> result,
                trace |-> B.trace, invoked |-> invoked]
    /\ UNCHANGED <<apiBase, hasWindow, quotaFull, storage, last>>

\* A call or event of the bridge alone: the pages' state stays.
Commit(B, op, arg, sock, result, invoked) ==
    /\ Assign(B, op, arg, sock, result, invoked)
    /\ UNCHANGED appVars

\* The subscriptions left once removeAllListeners() has run on a session.
Kept(B) == { s \in subscriptions : s[2] = 0 \/ B.sockets[s[2]].wired }

initializeSocket(token) ==
    LET r == initializeSocketOp(Bridge, token)
    IN /\ Len(r.bridge.sockets) <= MaxSockets
       /\ Commit(r.bridge, "initializeSocket", token, socket, r.result, {})
       /\ subscriptions' = Kept(r.bridge)

disconnectSocket ==
    /\ Commit(disconnectSocketOp(Bridge), "disconnectSocket", NoArg, socket, 0, {})
    /\ subscriptions' = Kept(disconnectSocketOp(Bridge))

getSocket == socket

\* if (socket) socket.on(event, callback)
onSocketEvent(callback) ==
    LET B == Bridge
    IN /\ Commit(IF socket # 0
                 THEN [B EXCEPT !.sockets[socket].handlers = @ \cup {callback}]
                 ELSE B,
                 "onSocketEvent", callback, socket, 0, {})
       /\ subscriptions' = subscriptions \cup {<<callback, socket>>}

\* socket.off(event, callback) that takes nothing off
socketOff_keep(handlers, callback) == handlers

\* socket.off(event, callback), or socket.off(event) when no callback is passed
socketOff(handlers, callback) ==
    IF callback = AllHandlers THEN {} ELSE handlers \ {callback}

offSocketEvent(callback) ==
    LET B == Bridge
    IN /\ Commit(IF socket # 0
                 THEN [B EXCEPT !.sockets[socket].handlers = socketOff(@, callback)]
                 ELSE B,
                 "offSocketEvent", callback, socket, 0, {})
       /\ subscriptions' =
              IF socket = 0 THEN subscriptions
              ELSE IF callback = AllHandlers
                   THEN { s \in subscriptions : s[2] # socket }
                   ELSE subscriptions \ {<<callback, socket>>}

\* a "connect" listener that leaves isInitializing as it is
onConnect_keepFlag(B) ==
    clearConnectionTimeout([B EXCEPT !.connectionErrorCount = 0])

\* socket.on("connect", () => ...)
onConnect(B) ==
    clearConnectionTimeout([B EXCEPT !.isInitializing = FALSE,
                                     !.connectionErrorCount = 0])

\* connectionErrorCount > 3
capReached_late(count) == count > ErrorCap

\* connectionErrorCount >= 3
capReached(count) == count >= ErrorCap

\* socket.on("connect_error", (error) => ...)
onConnectError(B) ==
    LET B1 == [B EXCEPT !.connectionErrorCount = @ + 1, !.isInitializing = FALSE]
    IN IF capReached(B1.connectionErrorCount)
       THEN clearConnectionTimeout(
                IF B1.socket # 0
                THEN [disconnect(B1, B1.socket) EXCEPT !.socket = 0]
                ELSE B1)
       ELSE B1

\* reconnectionAttempts: 3
ReconnectionAttempts == 3

\* The transport of Socket k opens: the Socket emits "connect".
Connect(k) ==
    /\ sockets[k].status = "connecting"
    /\ LET B == [Bridge EXCEPT !.sockets[k].status = "connected",
                               !.sockets[k].errors = 0]
       IN Commit(IF sockets[k].wired THEN onConnect(B) ELSE B,
                 "connect", NoArg, k, 0, {})
    /\ UNCHANGED subscriptions

\* An attempt of Socket k fails: the Socket emits "connect_error"; the manager
\* gives up after reconnectionAttempts further failures.
ConnectError(k) ==
    /\ sockets[k].status = "connecting"
    /\ LET B == [Bridge EXCEPT !.sockets[k].errors = @ + 1,
                               !.sockets[k].status =
                                   IF sockets[k].errors + 1 > ReconnectionAttempts
                                   THEN "closed" ELSE @]
       IN Commit(IF sockets[k].wired THEN onConnectError(B) ELSE B,
                 "connect_error", NoArg, k, 0, {})
    /\ UNCHANGED subscriptions

\* The transport of Socket k is lost: the Socket emits "disconnect" and the
\* manager starts to reconnect.
TransportClose(k) ==
    /\ sockets[k].status = "connected"
    /\ LET B == [Bridge EXCEPT !.sockets[k].status = "connecting"]
       IN Commit(IF sockets[k].wired THEN onDisconnect(B, "transport close") ELSE B,
                 "disconnect", "transport close", k, 0, {})
    /\ UNCHANGED subscriptions

\* The server disconnects Socket k: the Socket emits "disconnect" and does not
\* reconnect.
ServerDisconnect(k) ==
    /\ sockets[k].status = "connected"
    /\ LET B == [Bridge EXCEPT !.sockets[k].status = "closed"]
       IN Commit(IF sockets[k].wired THEN onDisconnect(B, "io server disconnect") ELSE B,
                 "disconnect", "io server disconnect", k, 0, {})
    /\ UNCHANGED subscriptions

\* connectionTimeout = setTimeout(() => ..., 15000): the callback runs
ConnectionTimeout ==
    /\ connectionTimeout = "pending"
    /\ LET B == [Bridge EXCEPT !.connectionTimeout = "fired"]
       IN Commit(IF B.socket # 0 /\ ~connected(B)
                 THEN [disconnect(B, B.socket) EXCEPT !.isInitializing = FALSE]
                 ELSE B,
                 "timeout", NoArg, socket, 0, {})
    /\ UNCHANGED subscriptions

\* The server pushes an event over Socket k: the Socket calls its handlers.
ServerPush(k) ==
    /\ sockets[k].status = "connected"
    /\ Commit(Bridge, "push", NoArg, k, 0, sockets[k].handlers)
    /\ UNCHANGED subscriptions

SocketInit ==
    /\ hasWindow \in BOOLEAN
    /\ apiBase \in BOOLEAN
    /\ quotaFull = FALSE
    /\ storage = absent
    /\ last = [ op |-> "none", productId |-> NoArg, pharmacyId |-> NoArg,
                quantity |-> 0, index |-> 0, error |-> "none", heard |-> << >>,
                onFresh |-> FALSE ]
    /\ SocketIdle
    /\ AppIdle

SocketNext ==
    \/ \E token \in Tokens \cup {NoToken} : initializeSocket(token)
    \/ disconnectSocket
    \/ \E callback \in Handlers : onSocketEvent(callback)
    \/ \E callback \in Handlers \cup {AllHandlers} : offSocketEvent(callback)
    \/ \E k \in 1..Len(sockets) : Connect(k)
    \/ \E k \in 1..Len(sockets) : ConnectError(k)
    \/ \E k \in 1..Len(sockets) : TransportClose(k)
    \/ \E k \in 1..Len(sockets) : ServerDisconnect(k)
    \/ ConnectionTimeout
    \/ \E k \in 1..Len(sockets) : ServerPush(k)

SocketSpec == SocketInit /\ [][SocketNext]_<<cartVars, socketVars, appVars>>

\* --------------------------------------------------------- SocketProvider
\* localStorage.setItem("token", ...) at login
Login(token) ==
    /\ storedToken = NoToken
    /\ storedToken' = token
    /\ UNCHANGED <<effectToken, timers, cartVars, socketVars, checkoutVars, tabVars, refetchVars>>

\* Navbar.handleLogout: localStorage.removeItem("token"); the route change it
\* asks for is a later RouteChange.
Logout ==
    /\ storedToken # NoToken
    /\ storedToken' = NoToken
    /\ UNCHANGED <<effectToken, timers, cartVars, socketVars, checkoutVars, tabVars, refetchVars>>

\* The pathname changes: the cleanup of the last run of the effect calls
\* disconnectSocket(), then the effect runs again: with a token it schedules
\* initializeSocket(token) 100 ms later, without one it calls disconnectSocket().
RouteChange ==
    LET cleaned == disconnectSocketOp(Bridge)
    IN /\ storedToken # NoToken => Len(timers) < MaxTimers
       /\ effectToken' = storedToken
       /\ timers' = IF storedToken # NoToken THEN Append(timers, storedToken)
                    ELSE timers
       /\ Assign(IF storedToken # NoToken THEN cleaned
                 ELSE [disconnectSocketOp(cleaned) EXCEPT !.trace = cleaned.trace],
                 "effect", storedToken, socket, 0, {})
       /\ subscriptions' = Kept(cleaned)
       /\ UNCHANGED <<storedToken, checkoutVars, tabVars, refetchVars>>

\* setTimeout(() => { initializeSocket(token) }, 100): the oldest callback runs
\* with the token its effect read.
DelayedInitialize ==
    /\ timers # << >>
    /\ LET r == initializeSocketOp(Bridge, Head(timers))
       IN /\ Len(r.bridge.sockets) <= MaxSockets
          /\ Assign(r.bridge, "initializeSocket", Head(timers), socket, r.result, {})
          /\ subscriptions' = Kept(r.bridge)
    /\ timers' = Tail(timers)
    /\ UNCHANGED <<storedToken, effectToken, checkoutVars, tabVars, refetchVars>>

ProviderInit ==
    /\ hasWindow = TRUE
    /\ apiBase = TRUE
    /\ quotaFull = FALSE
    /\ storage = absent
    /\ last = [ op |-> "none", productId |-> NoArg, pharmacyId |-> NoArg,
                quantity |-> 0, index |-> 0, error |-> "none", heard |-> << >>,
                onFresh |-> FALSE ]
    /\ SocketIdle
    /\ AppIdle

ProviderNext ==
    \/ \E token \in Tokens : Login(token)
    \/ Logout
    \/ RouteChange
    \/ DelayedInitialize
    \/ \E k \in 1..Len(sockets) : Connect(k)
    \/ \E k \in 1..Len(sockets) : ConnectError(k)
    \/ \E k \in 1..Len(sockets) : TransportClose(k)
    \/ ConnectionTimeout

ProviderSpec == ProviderInit /\ [][ProviderNext]_<<cartVars, socketVars, appVars>>

\* --------------------------------------------------------------- checkout
\* product.prescriptionRequired, copied into the cart line at add time
prescriptionRequired(item) == item.productId = "P2"

\* The carts addToCart can have stored: lines of different keys.
Carts ==
    { c \in UNION { [1..n -> CartItem] : n \in 0..Cardinality(Catalog) } :
          \A i, j \in 1..Len(c) : SameKey(c[i], c[j].productId, c[j].pharmacyId)
                                   => i = j }

\* CartPage.handleProceedToCheckout(pharmacyId, items) for one group of
\* getCartByPharmacy(): the snapshot written to sessionStorage.
ProceedToCheckout(pharmacyId) ==
    LET grouped == getCartByPharmacy(storage)
    IN /\ grouped.error = "none"
       /\ pharmacyId \in DOMAIN grouped.value
       /\ LET items == grouped.value[pharmacyId]
              total == reducePrice(items, 0)
          IN checkoutData' = [pharmacyId |-> pharmacyId, itemsDetails |-> items,
                              totalAmount |-> total + DeliveryCharge,
                              deliveryCharge |-> DeliveryCharge]
       /\ UNCHANGED <<request, providerVars, cartVars, socketVars, tabVars, refetchVars>>

\* checkoutData?.itemsDetails.some((item) => item.prescriptionRequired)
hasPrescriptionRequired(data) ==
    \E i \in 1..Len(data.itemsDetails) : prescriptionRequired(data.itemsDetails[i])

\* subtotal and finalTotal, the total the checkout page shows
finalTotal(data, deliveryType) ==
    LET subtotal == data.totalAmount - data.deliveryCharge
    IN IF deliveryType = "DELIVERY" THEN subtotal + data.deliveryCharge ELSE subtotal

\* the gate after the upload, passing whatever the upload returned
uploadRefused_never(data, url) == FALSE

\* if (hasPrescriptionRequired && !prescriptionImageUrl) { setLoading(false); return; }
uploadRefused(data, url) == hasPrescriptionRequired(data) /\ url = "null"

\* const orderPayload = {...}
orderPayload(data, deliveryType, url) ==
    [pharmacyId |-> data.pharmacyId, deliveryType |-> deliveryType,
     totalAmount |-> data.totalAmount,
     deliveryCharge |-> IF deliveryType = "DELIVERY" THEN data.deliveryCharge ELSE 0,
     prescriptionImageUrl |-> url]

\* handlePlaceOrder up to "await apiPost(...)": the validation, the upload of
\* the selected file (uploaded: the upload returned a url) and the request.
PlaceOrder(deliveryType, address, phoneNumber, prescriptionFile, uploaded) ==
    /\ checkoutData # NoCheckout
    /\ request.state # "sent"
    /\ LET url == IF prescriptionFile /\ uploaded THEN "url" ELSE "null"
           invalid == \/ deliveryType = "DELIVERY" /\ ~address
                      \/ ~phoneNumber
                      \/ hasPrescriptionRequired(checkoutData) /\ ~prescriptionFile
       IN request' =
              IF invalid
              THEN [state |-> "invalid", data |-> checkoutData, payload |-> NoPayload]
              ELSE IF prescriptionFile /\ uploadRefused(checkoutData, url)
              THEN [state |-> "uploadFailed", data |-> checkoutData,
                    payload |-> NoPayload]
              ELSE [state |-> "sent", data |-> checkoutData,
                    payload |-> orderPayload(checkoutData, deliveryType, url)]
    /\ UNCHANGED <<checkoutData, providerVars, cartVars, socketVars, tabVars, refetchVars>>

\* forEach that stops after the first item
RECURSIVE removeEach_firstOnly(_, _)
removeEach_firstOnly(st, items) ==
    IF items = << >> THEN [error |-> "none", storage |-> st]
    ELSE LET cart == getCart(st)
         IN IF cart.type # "array" THEN [error |-> "TypeError", storage |-> st]
            ELSE LET written == setItem(filterOut(cart.items, Head(items).productId,
                                                  Head(items).pharmacyId))
                 IN IF written.error # "none"
                    THEN [error |-> written.error, storage |-> st]
                    ELSE [error |-> "none", storage |-> written.storage]

\* checkoutData.itemsDetails.forEach((item) => cartUtils.removeFromCart(...)):
\* the stored text afterwards, or the exception of the call that threw
RECURSIVE removeEach(_, _)
removeEach(st, items) ==
    IF items = << >> THEN [error |-> "none", storage |-> st]
    ELSE LET cart == getCart(st)
         IN IF cart.type # "array" THEN [error |-> "TypeError", storage |-> st]
            ELSE LET written == setItem(filterOut(cart.items, Head(items).productId,
                                                  Head(items).pharmacyId))
                 IN IF written.error # "none"
                    THEN [error |-> written.error, storage |-> st]
                    ELSE removeEach(written.storage, Tail(items))

\* handlePlaceOrder after "await apiPost(...)": on success the lines of the
\* snapshot are removed from the cart and the snapshot is dropped; a rejected
\* request, or an exception of the removal, ends in the catch.
OrderResponse(ok) ==
    /\ request.state = "sent"
    /\ IF ok
       THEN LET removed == removeEach(storage, request.data.itemsDetails)
            IN /\ storage' = removed.storage
               /\ checkoutData' = IF removed.error = "none" THEN NoCheckout
                                  ELSE checkoutData
               /\ request' = [request EXCEPT !.state =
                                 IF removed.error = "none" THEN "placed"
                                 ELSE "placedThenThrew"]
       ELSE /\ request' = [request EXCEPT !.state = "failed"]
            /\ UNCHANGED <<storage, checkoutData>>
    /\ UNCHANGED <<hasWindow, quotaFull, last, providerVars, socketVars, tabVars, refetchVars>>

CheckoutInit ==
    /\ hasWindow = TRUE
    /\ apiBase = TRUE
    /\ quotaFull = FALSE
    /\ storage \in { JSONstringify(c) : c \in Carts }
    /\ last = [ op |-> "none", productId |-> NoArg, pharmacyId |-> NoArg,
                quantity |-> 0, index |-> 0, error |-> "none", heard |-> << >>,
                onFresh |-> FALSE ]
    /\ SocketIdle
    /\ AppIdle

CheckoutNext ==
    \/ \E pharmacyId \in { k[2] : k \in Catalog } : ProceedToCheckout(pharmacyId)
    \/ \E deliveryType \in DeliveryTypes, address, phoneNumber \in BOOLEAN,
          prescriptionFile, uploaded \in BOOLEAN :
            PlaceOrder(deliveryType, address, phoneNumber, prescriptionFile, uploaded)
    \/ \E ok \in BOOLEAN : OrderResponse(ok)
    \/ \E k \in Catalog : removeFromCart(k[1], k[2])

CheckoutSpec == CheckoutInit /\ [][CheckoutNext]_<<cartVars, socketVars, appVars>>

\* ---------------------------------------------------------------- two tabs
\* Two CartPages in two tabs over one localStorage.  "cartUpdated" is
\* dispatched on the window of the tab that wrote, so only that tab reloads.

\* item.quantity - 1 / item.quantity + 1 with the step taken twice
newQuantity_twice(item, delta) == item.quantity + delta + delta

\* item.quantity - 1 / item.quantity + 1 of the quantity buttons
newQuantity(item, delta) == item.quantity + delta

\* The lines the two tabs start on: both keys of pharmacy S1.
TabLine(k, quantity) ==
    [productId |-> k[1], pharmacyId |-> k[2], quantity |-> quantity,
     price |-> sellingPrice(k), mrp |-> listPrice(k),
     availableQuantity |-> MaxStock]

\* cartUtils.updateQuantity as handleQuantityChange calls it: what it stores
\* and records.
updateQuantityCall(productId, pharmacyId, quantity) ==
    LET cart == getCart(storage)
    IN  IF cart.type # "array"
        THEN Raise("updateQuantity", productId, pharmacyId, quantity, 0, "TypeError")
        ELSE
          LET index == findIndex(cart.items, productId, pharmacyId)
          IN  IF index > 0
              THEN LET updated == IF quantity <= 0
                                  THEN splice(cart.items, index)
                                  ELSE [cart.items EXCEPT
                                          ![index] = setQuantity(@, quantity)]
                       done == persist(updated)
                   IN  /\ storage' = done.storage
                       /\ last' = Call("updateQuantity", productId, pharmacyId,
                                       quantity, index, done.error, done.heard)
              ELSE /\ last' = Call("updateQuantity", productId, pharmacyId,
                                   quantity, 0, "none", << >>)
                   /\ UNCHANGED storage

\* A click in a tab on the - (delta = -1) or + (delta = 1) button of the i-th
\* line it shows; + is disabled at item.quantity >= item.availableQuantity.
\* A write dispatches cartUpdated in this tab, whose handler reloads the cart.
Click(tab, i, delta) ==
    /\ i \in 1..Len(shown[tab])
    /\ LET item == shown[tab][i]
           held == getCart(storage).items
           index == findIndex(held, item.productId, item.pharmacyId)
       IN /\ delta = 1 => item.quantity < item.availableQuantity
          /\ updateQuantityCall(item.productId, item.pharmacyId,
                                newQuantity(item, delta))
          /\ clicked' = [tab |-> tab, shown |-> item.quantity,
                         stored |-> IF index > 0 THEN held[index].quantity ELSE 0]
          /\ shown' = IF last'.heard # << >>
                      THEN [shown EXCEPT ![tab] = last'.heard[Len(last'.heard)]]
                      ELSE shown
    /\ UNCHANGED <<hasWindow, quotaFull, socketVars, providerVars, checkoutVars, refetchVars>>

\* A tab opens or reloads the cart page: useEffect(() => { loadCart(); ... }, [])
OpenCartPage(tab) ==
    /\ shown' = [shown EXCEPT ![tab] = loadCart(storage)]
    /\ UNCHANGED <<clicked, cartVars, socketVars, providerVars, checkoutVars, refetchVars>>

TabsInit ==
    /\ hasWindow = TRUE
    /\ apiBase = TRUE
    /\ quotaFull = FALSE
    /\ storage \in { JSONstringify(<< TabLine(<<"P1", "S1">>, q1),
                                      TabLine(<<"P2", "S1">>, q2) >>) :
                         q1, q2 \in 1..MaxStock }
    /\ last = [ op |-> "none", productId |-> NoArg, pharmacyId |-> NoArg,
                quantity |-> 0, index |-> 0, error |-> "none", heard |-> << >>,
                onFresh |-> FALSE ]
    /\ SocketIdle
    /\ AppIdle

TabsNext ==
    \/ \E tab \in Tabs : OpenCartPage(tab)
    \/ \E tab \in Tabs, i \in 1..2, delta \in {0 - 1, 1} : Click(tab, i, delta)

TabsSpec == TabsInit /\ [][TabsNext]_<<cartVars, socketVars, appVars>>

\* ------------------------------------------------------ order tracking page
\* setOrder that keeps the newer of the two
setOrder_keepNewer(shownOrder, data) == IF data < shownOrder THEN shownOrder ELSE data

\* setOrder(data)
setOrder(shownOrder, data) == data

\* The server changes the order and pushes "order:statusUpdated" (or
\* "order:deliveryLocationUpdated"); handleLocationUpdate calls fetchOrder(),
\* which starts an apiGet.
OrderEvent ==
    /\ serverOrder < MaxVersion
    /\ issued < MaxFetches
    /\ serverOrder' = serverOrder + 1
    /\ issued' = issued + 1
    /\ fetches' = fetches \cup {[id |-> issued + 1, data |-> 0]}
    /\ UNCHANGED <<order, resolved, cartVars, socketVars, providerVars,
                   checkoutVars, tabVars>>

\* The server answers one request with the order as it is then.
Answer(id) ==
    /\ [id |-> id, data |-> 0] \in fetches
    /\ fetches' = (fetches \ {[id |-> id, data |-> 0]})
                      \cup {[id |-> id, data |-> serverOrder]}
    /\ UNCHANGED <<serverOrder, order, issued, resolved, cartVars, socketVars,
                   providerVars, checkoutVars, tabVars>>

\* const data = await apiGet(...); setOrder(data): an answered request
\* resolves, in whatever order the responses arrive.
Resolve(fetch) ==
    /\ fetch \in fetches
    /\ fetch.data # 0
    /\ order' = setOrder(order, fetch.data)
    /\ resolved' = [id |-> fetch.id, data |-> fetch.data, before |-> order]
    /\ fetches' = fetches \ {fetch}
    /\ UNCHANGED <<serverOrder, issued, cartVars, socketVars, providerVars,
                   checkoutVars, tabVars>>

\* catch (error) { console.error(...) }: the request fails, the order stays
Reject(fetch) ==
    /\ fetch \in fetches
    /\ fetches' = fetches \ {fetch}
    /\ UNCHANGED <<serverOrder, order, issued, resolved, cartVars, socketVars,
                   providerVars, checkoutVars, tabVars>>

RefetchInit ==
    /\ hasWindow = TRUE
    /\ apiBase = TRUE
    /\ quotaFull = FALSE
    /\ storage = absent
    /\ last = [ op |-> "none", productId |-> NoArg, pharmacyId |-> NoArg,
                quantity |-> 0, index |-> 0, error |-> "none", heard |-> << >>,
                onFresh |-> FALSE ]
    /\ SocketIdle
    /\ AppIdle

RefetchNext ==
    \/ OrderEvent
    \/ \E id \in 1..MaxFetches : Answer(id)
    \/ \E fetch \in fetches : Resolve(fetch)
    \/ \E fetch \in fetches : Reject(fetch)

RefetchSpec == RefetchInit /\ [][RefetchNext]_<<cartVars, socketVars, appVars>>

\* ----------------------------------------------------------------- claims
\* What the next getCart() returns in the current state.
Cart == getCart(storage)
Lines == Cart.items

LineOf(items, productId, pharmacyId) == items[findIndex(items, productId, pharmacyId)]

KeyCount(items, productId, pharmacyId) ==
    Cardinality({ i \in 1..Len(items) : SameKey(items[i], productId, pharmacyId) })

Returned(op) == last.op = op /\ last.error = "none"

\* C1: the stored cart never holds two lines with the same
\* (productId, pharmacyId).
C1_OneLinePerKey ==
    \A i, j \in 1..Len(Lines) :
        SameKey(Lines[i], Lines[j].productId, Lines[j].pharmacyId) => i = j

\* an addToCart that found its key among several lines and merged into it
C1_Witness ==
    /\ Returned("addToCart")
    /\ last.index > 0
    /\ Len(Lines) >= 2

\* C2: every stored line has 0 < quantity <= availableQuantity.
C2_QuantityInRange ==
    \A i \in 1..Len(Lines) :
        0 < Lines[i].quantity /\ Lines[i].quantity <= Lines[i].availableQuantity

\* C3: when an addToCart that appended the line of a key is directly followed
\* by a second addToCart of the same key, and both return, the cart holds one
\* line for the key, with quantity min(q1 + q2, availableQuantity), where
\* availableQuantity is the one the first call stored; if it is the only line,
\* getCartCount() is that quantity and getCartTotal() is price times it.
C3_TwoAddsMerge ==
    [][ ( /\ last.op = "addToCart" /\ last.error = "none" /\ last.index = 0
          /\ last'.op = "addToCart" /\ last'.error = "none"
          /\ last'.productId = last.productId
          /\ last'.pharmacyId = last.pharmacyId
          /\ quotaFull' = quotaFull )
        => LET p == last.productId
               s == last.pharmacyId
               stored == LineOf(Lines, p, s)
               expected == Min(last.quantity + last'.quantity, stored.availableQuantity)
           IN  /\ KeyCount(Lines', p, s) = 1
               /\ LineOf(Lines', p, s).quantity = expected
               /\ Len(Lines') = 1 =>
                      /\ getCartCount(storage').value = expected
                      /\ getCartTotal(storage').value = stored.price * expected
      ]_cartVars

\* the second of two such calls, with the sum cut down to the stored stock
C3_Witness ==
    /\ Returned("addToCart")
    /\ last.onFresh
    /\ last.quantity >= 1
    /\ KeyCount(Lines, last.productId, last.pharmacyId) = 1
    /\ LET line == LineOf(Lines, last.productId, last.pharmacyId)
       IN  /\ line.availableQuantity >= 1
           /\ line.quantity = line.availableQuantity

\* C4: a returned updateQuantity(p, s, n) on a cart that holds the line (p, s)
\* leaves that line in place with quantity = availableQuantity when
\* n > availableQuantity, and deletes it when n <= 0; every other line keeps
\* its fields and its position relative to the others.
C4_UpdateClampsOrRemoves ==
    [][ ( /\ last'.op = "updateQuantity" /\ last'.error = "none"
          /\ quotaFull' = quotaFull
          /\ KeyCount(Lines, last'.productId, last'.pharmacyId) >= 1 )
        => LET p == last'.productId
               s == last'.pharmacyId
               n == last'.quantity
               i == findIndex(Lines, p, s)
               a == Lines[i].availableQuantity
           IN  /\ n > a => Lines' = [Lines EXCEPT ![i].quantity = a]
               /\ n <= 0 =>
                      /\ Lines' = SelectSeq(Lines, LAMBDA line : ~SameKey(line, p, s))
                      /\ Len(Lines') = Len(Lines) - 1
      ]_cartVars

\* an updateQuantity above the stock of a line that has neighbours
C4_Witness ==
    /\ Returned("updateQuantity")
    /\ last.index > 0
    /\ Len(Lines) >= 2
    /\ KeyCount(Lines, last.productId, last.pharmacyId) = 1
    /\ LET line == LineOf(Lines, last.productId, last.pharmacyId)
       IN  /\ line.availableQuantity >= 1
           /\ last.quantity > line.availableQuantity
           /\ line.quantity = line.availableQuantity

\* C5: with a cart in storage, a returned removeFromCart(p, s) leaves no line
\* (p, s) (isInCart(p, s) is false) and keeps every other line, fields and
\* order; and when the cart has no line (p, s) and localStorage accepts the
\* write, the call returns and the lines are what they were.
C5_RemoveDeletesOnlyItsLine ==
    [][ ( /\ last'.op = "removeFromCart"
          /\ quotaFull' = quotaFull
          /\ Cart.type = "array" )
        => LET p == last'.productId
               s == last'.pharmacyId
           IN  /\ last'.error = "none" =>
                      /\ isInCart(storage', p, s) = [error |-> "none", value |-> FALSE]
                      /\ KeyCount(Lines', p, s) = 0
                      /\ Lines' = SelectSeq(Lines, LAMBDA line : ~SameKey(line, p, s))
               /\ (KeyCount(Lines, p, s) = 0 /\ hasWindow /\ ~quotaFull) =>
                      /\ last'.error = "none"
                      /\ Lines' = Lines
      ]_cartVars

\* the middle line of a three-line cart was removed
C5_Witness ==
    /\ Returned("removeFromCart")
    /\ last.index = 2
    /\ Len(Lines) = 2
    /\ KeyCount(Lines, last.productId, last.pharmacyId) = 0

\* C6: whatever text the storage key holds, getCart() returns a list, the
\* empty one for absent or unparseable text, and no call built on it ends in
\* a TypeError.
C6_GetCartIsAList ==
    /\ Cart.type = "array"
    /\ storage.kind \in {"absent", "garbage"} => Lines = << >>
    /\ getCartCount(storage).error = "none"
    /\ last.error # "TypeError"

\* C7: no cart operation lets a storage failure (no localStorage, a refused
\* write) reach its caller.
C7_NoStorageErrorEscapes ==
    last.error \notin {"ReferenceError", "QuotaExceededError"}

\* Sums over the set of positions of a list, in no particular order.
RECURSIVE SumQuantity(_, _)
SumQuantity(items, I) ==
    IF I = {} THEN 0
    ELSE LET i == CHOOSE x \in I : TRUE
         IN  items[i].quantity + SumQuantity(items, I \ {i})

RECURSIVE SumAmount(_, _)
SumAmount(items, I) ==
    IF I = {} THEN 0
    ELSE LET i == CHOOSE x \in I : TRUE
         IN  items[i].price * items[i].quantity + SumAmount(items, I \ {i})

\* C8: getCartCount() is the sum of the quantities and getCartTotal() the sum
\* of price * quantity over the lines of the cart; both are 0 for no lines.
C8_CountAndTotal ==
    Cart.type = "array" =>
        /\ getCartCount(storage) =
               [error |-> "none", value |-> SumQuantity(Lines, DOMAIN Lines)]
        /\ getCartTotal(storage) =
               [error |-> "none", value |-> SumAmount(Lines, DOMAIN Lines)]
        /\ Lines = << >> =>
               getCartCount(storage).value = 0 /\ getCartTotal(storage).value = 0

\* two lines of different price, both with a positive quantity
C8_Witness ==
    /\ Len(Lines) >= 2
    /\ Lines[1].price # Lines[2].price
    /\ Lines[1].quantity >= 1
    /\ Lines[2].quantity >= 1
    /\ getCartTotal(storage).value > getCartCount(storage).value

\* C9: getCartByPharmacy() has one non-empty group per pharmacyId in the cart,
\* every line is in the group of its own pharmacyId and in no other place, and
\* each group lists its lines in cart order.
C9_GroupsPartitionCart ==
    Cart.type = "array" =>
        LET grouped == getCartByPharmacy(storage).value
            place(line) == { <<s, j>> \in (DOMAIN grouped) \X (1..Len(Lines)) :
                                j <= Len(grouped[s]) /\ grouped[s][j] = line }
        IN  /\ getCartByPharmacy(storage).error = "none"
            /\ DOMAIN grouped = { Lines[i].pharmacyId : i \in 1..Len(Lines) }
            /\ \A s \in DOMAIN grouped :
                   /\ grouped[s] # << >>
                   /\ grouped[s] = SelectSeq(Lines, LAMBDA line : line.pharmacyId = s)
            /\ \A i \in 1..Len(Lines) :
                   /\ Cardinality(place(Lines[i])) = 1
                   /\ \A sj \in place(Lines[i]) : sj[1] = Lines[i].pharmacyId

\* three lines, the two of one pharmacy separated by a line of the other
C9_Witness ==
    /\ Len(Lines) = 3
    /\ Lines[1].pharmacyId = "S1"
    /\ Lines[2].pharmacyId = "S2"
    /\ Lines[3].pharmacyId = "S1"

\* C10: a returned addToCart, removeFromCart or clearCart, and a returned
\* updateQuantity that found its line, dispatched cartUpdated exactly once,
\* and the subscriber's getCart() in the handler read the cart that the call
\* left in storage.
C10_SignalledOnceAfterWrite ==
    ( /\ last.error = "none"
      /\ \/ last.op \in {"addToCart", "removeFromCart", "clearCart"}
         \/ last.op = "updateQuantity" /\ last.index > 0 )
    => /\ Len(last.heard) = 1
       /\ Cart.type = "array"
       /\ last.heard[1] = Lines

\* a removeFromCart that matched no line of a non-empty cart, and signalled
C10_Witness ==
    /\ Returned("removeFromCart")
    /\ last.index = 0
    /\ Len(Lines) >= 1
    /\ Len(last.heard) = 1

\* C19: after a returned updateQuantity on an existing line, the line is gone
\* or has quantity >= 1.
C19_UpdateLeavesNoZeroLine ==
    ( /\ Returned("updateQuantity")
      /\ last.index > 0
      /\ KeyCount(Lines, last.productId, last.pharmacyId) >= 1 )
    => LineOf(Lines, last.productId, last.pharmacyId).quantity >= 1

\* C20: updateQuantity for a key that the cart does not hold leaves the stored
\* text as it is and dispatches no cartUpdated.
C20_UpdateOfAbsentKeyIsNoOp ==
    [][ ( /\ last'.op = "updateQuantity"
          /\ quotaFull' = quotaFull
          /\ KeyCount(Lines, last'.productId, last'.pharmacyId) = 0 )
        => /\ storage' = storage
           /\ last'.heard = << >>
      ]_cartVars

\* an updateQuantity that found no line for its key in a cart with a line
C20_Witness ==
    /\ Returned("updateQuantity")
    /\ last.index = 0
    /\ Len(Lines) >= 1
    /\ KeyCount(Lines, last.productId, last.pharmacyId) = 0

\* ---------------------------------------------------------- bridge claims
vars == <<cartVars, socketVars, appVars>>

\* The session the bridge holds is open or still trying to open.
Live == socket # 0 /\ sockets[socket].status # "closed"

\* C11: while the held session is connected with token t, initializeSocket(t)
\* returns that session, makes no library call, and leaves the sessions, their
\* handlers and every module variable as they are.
C11_SameTokenIsNoOp ==
    [][ ( /\ step'.op = "initializeSocket"
          /\ connected(Bridge)
          /\ step'.arg = sockets[socket].token )
        => /\ step'.result = socket
           /\ step'.trace = << >>
           /\ UNCHANGED <<sockets, socket, isInitializing, connectionTimeout,
                          connectionErrorCount, subscriptions>>
      ]_vars

\* initializeSocket(t) returned the connected session of t, which has a handler
C11_Witness ==
    /\ step.op = "initializeSocket"
    /\ connected(Bridge)
    /\ step.result = socket
    /\ step.sock = socket
    /\ step.arg = sockets[socket].token
    /\ sockets[socket].handlers # {}

\* C12: while the held session was opened with t1 and is connected or still
\* connecting, initializeSocket(t2) with another non-empty token closes that
\* session before it opens a new one, and returns and holds a session of t2.
C12_OtherTokenReplacesSession ==
    [][ ( /\ step'.op = "initializeSocket"
          /\ Live
          /\ step'.arg \in Tokens
          /\ step'.arg # sockets[socket].token )
        => /\ socket' # 0
           /\ step'.result = socket'
           /\ sockets'[socket'].token = step'.arg
           /\ sockets'[socket].status = "closed"
           /\ step'.trace = <<"removeAllListeners", "disconnect", "io">>
      ]_vars

\* C13: every Socket the bridge created before the newest one is closed, so at
\* most one is open or trying to connect.
C13_OneOpenTransport ==
    \A k \in 1..Len(sockets) : k < Len(sockets) => sockets[k].status = "closed"

\* a second session is connected and the first one is closed
C13_Witness ==
    /\ Len(sockets) >= 2
    /\ sockets[1].status = "closed"
    /\ sockets[2].status = "connected"
    /\ socket = 2

\* The bridge holds no session and no Socket is open or trying to connect.
Dead == getSocket = 0 /\ \A k \in 1..Len(sockets) : sockets[k].status = "closed"

\* C14: the connect_error that is the third in a row on a session closes that
\* session and leaves getSocket() null; from a state without a session and
\* without an open or connecting Socket, nothing but initializeSocket leads to
\* a Socket that is connecting or connected.
C14_CapIsTerminal ==
    [][ /\ ( /\ step'.op = "connect_error"
             /\ sockets'[step'.sock].errors >= ErrorCap )
           => /\ sockets'[step'.sock].status = "closed"
              /\ getSocket' = 0
        /\ (Dead /\ step'.op # "initializeSocket") => Dead'
      ]_vars

\* the third connect_error in a row has just closed the session
C14_Witness ==
    /\ step.op = "connect_error"
    /\ sockets[step.sock].errors = ErrorCap
    /\ sockets[step.sock].status = "closed"
    /\ getSocket = 0

\* C15: disconnectSocket() takes the listeners off the held session and then
\* closes it; afterwards there is no session, isInitializing is false, the
\* error counter is 0 and no timer is kept.  Without a session it makes no
\* library call and ends in the same state.
C15_DisconnectResets ==
    [][ step'.op = "disconnectSocket"
        => /\ socket' = 0
           /\ isInitializing' = FALSE
           /\ connectionErrorCount' = 0
           /\ connectionTimeout' = "null"
           /\ socket # 0 =>
                 /\ step'.trace = <<"removeAllListeners", "disconnect">>
                 /\ sockets'[socket].status = "closed"
                 /\ sockets'[socket].handlers = {}
                 /\ ~sockets'[socket].wired
           /\ socket = 0 =>
                 /\ step'.trace = << >>
                 /\ sockets' = sockets
      ]_vars

\* disconnectSocket() has just released a session
C15_Witness ==
    /\ step.op = "disconnectSocket"
    /\ step.sock # 0
    /\ step.trace = <<"removeAllListeners", "disconnect">>
    /\ sockets[step.sock].status = "closed"
    /\ socket = 0

\* C16: initializeSocket with an empty token, or where there is no window,
\* returns null, makes no library call and changes nothing.
C16_NoTokenOrNoWindowIsNoOp ==
    [][ ( /\ step'.op = "initializeSocket"
          /\ (step'.arg = NoToken \/ ~hasWindow) )
        => /\ step'.result = 0
           /\ step'.trace = << >>
           /\ UNCHANGED <<sockets, socket, isInitializing, connectionTimeout,
                          connectionErrorCount, subscriptions>>
      ]_vars

\* initializeSocket("") returned null while a session with a handler is held
C16_Witness ==
    /\ step.op = "initializeSocket"
    /\ step.arg = NoToken
    /\ step.result = 0
    /\ Live
    /\ step.sock = socket
    /\ sockets[socket].handlers # {}

\* C17: while a session opened with t is held and is connecting or connected,
\* initializeSocket(t) returns that session, opens no other and takes no
\* handler off.
C17_SameTokenCollapses ==
    [][ ( /\ step'.op = "initializeSocket"
          /\ Live
          /\ step'.arg = sockets[socket].token )
        => /\ step'.result = socket
           /\ step'.trace = << >>
           /\ UNCHANGED <<sockets, socket>>
      ]_vars

\* C18: a pushed event calls only handlers that were passed to onSocketEvent
\* while the delivering session was held and were not taken off since; no
\* other step calls a handler.
C18_OnlyRegisteredHandlersRun ==
    /\ step.op = "push" =>
           \A callback \in step.invoked : <<callback, step.sock>> \in subscriptions
    /\ step.op # "push" => step.invoked = {}

\* a push runs h2 and not h1, which was passed while no session was held
C18_Witness ==
    /\ step.op = "push"
    /\ step.invoked = {"h2"}
    /\ <<"h1", 0>> \in subscriptions
    /\ <<"h1", step.sock>> \notin subscriptions

\* C24: a connect_error makes the bridge give up the held session only when it
\* is the third in a row on that session.
C24_FullBudgetPerSession ==
    [][ ( /\ step'.op = "connect_error"
          /\ getSocket = step'.sock
          /\ getSocket' = 0 )
        => sockets'[step'.sock].errors >= ErrorCap
      ]_vars

\* C27: isInitializing is true only while a session is held that is not
\* connected.
C27_InitializingMeansConnecting ==
    isInitializing => (socket # 0 /\ ~connected(Bridge))

\* a held session is still connecting and isInitializing is set
C27_Witness ==
    /\ isInitializing
    /\ socket # 0
    /\ sockets[socket].status = "connecting"
    /\ step.op = "initializeSocket"

\* C28: when the error cap or the connect timeout closes the held session,
\* getSocket() is null afterwards; the timeout leaves a connected session alone.
C28_NoDeadSessionHandedOut ==
    [][ /\ ( /\ step'.op \in {"connect_error", "timeout"}
             /\ socket # 0
             /\ sockets'[socket].status = "closed" )
           => getSocket' = 0
        /\ (step'.op = "timeout" /\ connected(Bridge)) => sockets' = sockets
      ]_vars

\* The keys of the lines, in the order of the lines.
Keys(items) == [i \in 1..Len(items) |-> <<items[i].productId, items[i].pharmacyId>>]

KeysWithout(keys, key) == SelectSeq(keys, LAMBDA k : k # key)

\* C21: a returned mutator keeps the lines in the order their keys were first
\* added: addToCart of a new key puts it last, addToCart of a held key and an
\* updateQuantity that keeps the line change no position, and a removal takes
\* out its key and leaves the others in their order.
C21_InsertionOrderKept ==
    [][ ( /\ last'.op \in {"addToCart", "updateQuantity", "removeFromCart"}
          /\ last'.error = "none"
          /\ quotaFull' = quotaFull )
        => LET key == <<last'.productId, last'.pharmacyId>>
               keys == Keys(Lines)
               held == KeyCount(Lines, key[1], key[2]) >= 1
           IN  Keys(Lines') =
                   IF last'.op = "addToCart"
                   THEN IF held THEN keys ELSE Append(keys, key)
                   ELSE IF last'.op = "updateQuantity"
                   THEN IF held /\ last'.quantity <= 0
                        THEN KeysWithout(keys, key) ELSE keys
                   ELSE KeysWithout(keys, key)
      ]_cartVars

\* the first of three lines was removed by updateQuantity and the other two
\* kept their order
C21_Witness ==
    /\ Returned("updateQuantity")
    /\ last.quantity <= 0
    /\ last.index = 1
    /\ Len(Lines) = 2
    /\ KeyCount(Lines, last.productId, last.pharmacyId) = 0

\* C26: once the token is removed and the effect has run again without it (its
\* cleanup and its own branch called disconnectSocket), the bridge holds no
\* session, whatever delayed initializeSocket runs afterwards.
C26_NoSessionAfterLogout ==
    (storedToken = NoToken /\ effectToken = NoToken) => getSocket = 0

\* ---------------------------------------------------------- checkout claims
\* handlePlaceOrder got as far as sending the order request.
Submitted == request.state \in {"sent", "placed", "placedThenThrew", "failed"}

\* C25: an order whose snapshot has a line with prescriptionRequired is sent
\* only with the url of an uploaded prescription; when the upload fails
\* nothing is sent.
C25_PrescriptionGate ==
    /\ (Submitted /\ hasPrescriptionRequired(request.data))
           => request.payload.prescriptionImageUrl # "null"
    /\ request.state = "uploadFailed" => request.payload = NoPayload

\* an order with a prescription-only line was sent with the uploaded url
C25_Witness ==
    /\ request.state = "sent"
    /\ hasPrescriptionRequired(request.data)
    /\ request.payload.prescriptionImageUrl = "url"

\* A line of the snapshot has the key of this line.
InSnapshot(data, line) ==
    \E i \in 1..Len(data.itemsDetails) :
        SameKey(line, data.itemsDetails[i].productId, data.itemsDetails[i].pharmacyId)

\* C29: when the order request succeeds, the lines with a key of the snapshot
\* leave the cart and all other lines stay as they are; a handlePlaceOrder that
\* stops at the validation or at the upload, the sending itself, and a rejected
\* request leave the stored cart and the snapshot as they are.
C29_CartChangesOnlyOnSuccess ==
    [][ /\ (request.state = "sent" /\ request'.state = "placed")
           => /\ Lines' = SelectSeq(Lines,
                                    LAMBDA line : ~InSnapshot(request.data, line))
              /\ checkoutData' = NoCheckout
        /\ request'.state \in {"invalid", "uploadFailed", "sent", "failed"}
           => (request' # request => (storage' = storage /\ checkoutData' = checkoutData))
      ]_vars

\* an order of two lines was placed and a line of another pharmacy is still
\* in the cart
C29_Witness ==
    /\ request.state = "placed"
    /\ Len(request.data.itemsDetails) = 2
    /\ Len(Lines) = 1
    /\ Lines[1].pharmacyId # request.data.pharmacyId
    /\ checkoutData = NoCheckout

\* C30: the totalAmount of a sent order is the total the page shows for its
\* delivery type: the sum over the snapshot lines, plus the delivery charge
\* only for DELIVERY.
C30_PayloadTotalIsShownTotal ==
    Submitted =>
        LET total == finalTotal(request.data, request.payload.deliveryType)
        IN /\ total = reducePrice(request.data.itemsDetails, 0)
                      + request.payload.deliveryCharge
           /\ request.payload.totalAmount = total

\* ------------------------------------------------------------- page claims
\* C22: a click writes the quantity computed from what its tab shows, whatever
\* the other tab has stored since: on a line the storage still holds, the
\* stored quantity becomes the shown quantity -/+ 1 (capped by the stock), or
\* the line leaves the cart at 0, and only the clicking tab reloads.
C22_LastWriteWins ==
    [][ (clicked' # clicked \/ last' # last)
        => LET tab == clicked'.tab
               p == last'.productId
               s == last'.pharmacyId
               n == last'.quantity
           IN /\ n \in {clicked'.shown - 1, clicked'.shown + 1}
              /\ clicked'.shown = LineOf(shown[tab], p, s).quantity
              /\ KeyCount(Lines, p, s) >= 1 =>
                    IF n <= 0 THEN KeyCount(Lines', p, s) = 0
                    ELSE LineOf(Lines', p, s).quantity
                             = Min(n, LineOf(Lines, p, s).availableQuantity)
              /\ \A other \in Tabs \ {tab} : shown'[other] = shown[other]
      ]_vars

\* a tab that showed a quantity the storage no longer held has written over
\* the quantity the other tab stored and still shows
C22_Witness ==
    /\ last.op = "updateQuantity"
    /\ last.index > 0
    /\ clicked.tab = "A"
    /\ clicked.stored # clicked.shown
    /\ KeyCount(shown["B"], last.productId, last.pharmacyId) = 1
    /\ LineOf(shown["B"], last.productId, last.pharmacyId).quantity = clicked.stored
    /\ \/ KeyCount(Lines, last.productId, last.pharmacyId) = 0
       \/ LineOf(Lines, last.productId, last.pharmacyId).quantity # clicked.stored

\* C23: whenever a refetch resolves, the page shows the data of that response,
\* whichever request was issued first and whatever it showed before.
C23_LastResolvedIsShown ==
    [][ resolved' # resolved => order' = resolved'.data ]_vars

\* two refetches were in flight, the one issued first resolved last, and the
\* page now shows its older data in place of the newer
C23_Witness ==
    /\ fetches = {}
    /\ issued = 2
    /\ resolved.id = 1
    /\ resolved.before = 2
    /\ order = 1
    /\ serverOrder = 2
====
